---- MODULE Spec2Model ----
(***************************************************************************)
(* A model of main.py: the NLP cleaning pipeline (artifact stripping,      *)
(* chunked punctuation restoration, sentence segmentation and              *)
(* capitalisation, spacing normalisation), the yt-dlp subtitle helper and  *)
(* the transcript source chain that drives them.                           *)
(*                                                                         *)
(* Text is a sequence of characters; a character is a one-character string *)
(* ("e-acute" and "E-acute" stand for U+00E9 and U+00C9).                  *)
(***************************************************************************)
EXTENDS Integers, Sequences, FiniteSets, TLC

(***************************************************************************)
(* Bounds of the model.                                                    *)
(***************************************************************************)
\* restore_punctuation_and_case: input lengths are k*max_chunk + j*overlap + d
\* for k in 0..MaxWindows, j in 0..1, d in 0..MaxDelta.
MaxWindows == 2
MaxDelta == 1
\* clean_transcript_nlp: sequences of 1..MaxSegs segments; a sentence-boundary
\* model starts at most MaxCuts sentences after the first
MaxSegs == 2
MaxCuts == 1
\* subtitle files of 1..MaxLines lines
MaxLines == 3
\* the source chain processes 1..MaxVideos videos one after another
MaxVideos == 2

(***************************************************************************)
(* Characters and Python string primitives.                                *)
(***************************************************************************)
Min(a, b) == IF a < b THEN a ELSE b
Max(a, b) == IF a > b THEN a ELSE b
MinOf(S) == CHOOSE x \in S : \A y \in S : x <= y
MaxOf(S) == CHOOSE x \in S : \A y \in S : y <= x

Digits == {"0", "1", "2", "3", "4", "5", "6", "7", "8", "9"}
LowerAscii == {"a", "b", "c", "d", "e", "f", "g", "h", "i", "j", "k", "l", "m",
               "n", "o", "p", "q", "r", "s", "t", "u", "v", "w", "x", "y", "z"}
UpperAscii == {"A", "B", "C", "D", "E", "F", "G", "H", "I", "J", "K", "L", "M",
               "N", "O", "P", "Q", "R", "S", "T", "U", "V", "W", "X", "Y", "Z"}
\* what the regular expression class \s matches
IsSpace(c) == c \in {" ", "\n", "\t", "\r"}
IsDigit(c) == c \in Digits

\* s[a:b] of Python, for 0 <= a
Slice(s, a, b) == SubSeq(s, a + 1, Min(b, Len(s)))

\* the concatenation of ss[lo..hi], by halving (texts are thousands of
\* characters long)
RECURSIVE Flatten(_, _, _)
Flatten(ss, lo, hi) ==
    IF lo > hi THEN <<>>
    ELSE IF lo = hi THEN ss[lo]
    ELSE LET mid == (lo + hi) \div 2
         IN  Flatten(ss, lo, mid) \o Flatten(ss, mid + 1, hi)

Concat(ss) == Flatten(ss, 1, Len(ss))

\* sep.join(parts)
Join(parts, sep) ==
    Concat([k \in 1..Len(parts) |-> IF k = 1 THEN parts[k] ELSE sep \o parts[k]])

\* str.strip(): the first and the last character kept
RECURSIVE FirstNonSpace(_, _)
FirstNonSpace(s, k) ==
    IF k > Len(s) \/ ~IsSpace(s[k]) THEN k ELSE FirstNonSpace(s, k + 1)

RECURSIVE LastNonSpace(_, _)
LastNonSpace(s, k) ==
    IF k < 1 \/ ~IsSpace(s[k]) THEN k ELSE LastNonSpace(s, k - 1)

StrStrip(s) == SubSeq(s, FirstNonSpace(s, 1), LastNonSpace(s, Len(s)))

\* re.sub(r"\s+", " ", s)
CollapseWs(s) ==
    Concat([k \in 1..Len(s) |->
              IF ~IsSpace(s[k]) THEN <<s[k]>>
              ELSE IF k = 1 \/ ~IsSpace(s[k - 1]) THEN <<" ">>
              ELSE <<>>])

\* re.sub(r"\s+", " ", s).strip()
NormalizeWs(s) == StrStrip(CollapseWs(s))

\* the character at index k, "" outside the text
At(s, k) == IF k >= 1 /\ k <= Len(s) THEN s[k] ELSE ""

\* str.upper() of one character; only letters of the alphabet used here change
Upper(c) ==
    CASE c = "a" -> "A" [] c = "b" -> "B" [] c = "c" -> "C" [] c = "d" -> "D"
      [] c = "e" -> "E" [] c = "f" -> "F" [] c = "g" -> "G" [] c = "h" -> "H"
      [] c = "i" -> "I" [] c = "j" -> "J" [] c = "k" -> "K" [] c = "l" -> "L"
      [] c = "m" -> "M" [] c = "n" -> "N" [] c = "o" -> "O" [] c = "p" -> "P"
      [] c = "q" -> "Q" [] c = "r" -> "R" [] c = "s" -> "S" [] c = "t" -> "T"
      [] c = "u" -> "U" [] c = "v" -> "V" [] c = "w" -> "W" [] c = "x" -> "X"
      [] c = "y" -> "Y" [] c = "z" -> "Z" [] c = "e-acute" -> "E-acute"
      [] OTHER -> c

UpperStr(s) == [k \in 1..Len(s) |-> Upper(s[k])]

\* s.startswith(prefix) at index p
StartsWithAt(s, p, prefix) ==
    /\ p + Len(prefix) - 1 <= Len(s)
    /\ \A k \in 1..Len(prefix) : s[p + k - 1] = prefix[k]

\* sub in s
Contains(s, sub) == \E p \in 1..Len(s) : StartsWithAt(s, p, sub)

\* the index of the first "\n" at or after p, 0 when there is none
NextNewline(s, p) ==
    LET at == {k \in p..Len(s) : s[k] = "\n"}
    IN  IF at = {} THEN 0 ELSE MinOf(at)

\* the index after the run of digits starting at p
DigitsEnd(s, p) == MinOf({k \in p..Len(s) + 1 : ~IsDigit(At(s, k))})

(***************************************************************************)
(* _strip_vtt_srt_artifacts (main.py:171-180).                             *)
(***************************************************************************)
WEBVTT == <<"W", "E", "B", "V", "T", "T">>

\* the first line removed whatever it holds
RemoveLeadingHeaderAnyLine(text) ==
    LET nl == NextNewline(text, 1)
    IN  IF nl # 0 THEN SubSeq(text, nl + 1, Len(text)) ELSE text

\* line 174: re.sub(r"^\s*WEBVTT[^\n]*\n", "", text, flags=re.IGNORECASE);
\* without re.MULTILINE "^" is the start of the text only
RemoveLeadingHeader(text) ==
    LET a == FirstNonSpace(text, 1)
        nl == NextNewline(text, a + Len(WEBVTT))
    IN  IF StartsWithAt(UpperStr(text), a, WEBVTT) /\ nl # 0
        THEN SubSeq(text, nl + 1, Len(text))
        ELSE text

\* \d{1,2}:\d{2}:\d{2}\.\d{3} (hours) or \d{1,2}:\d{2}\.\d{3} at index p:
\* the index after the match, 0 when there is none
TimestampEnd(s, p, hours) ==
    LET q == IF IsDigit(At(s, p)) /\ IsDigit(At(s, p + 1)) /\ At(s, p + 2) = ":"
             THEN p + 2
             ELSE IF IsDigit(At(s, p)) /\ At(s, p + 1) = ":" THEN p + 1
             ELSE 0
        r == IF q # 0 /\ hours
             THEN IF IsDigit(At(s, q + 1)) /\ IsDigit(At(s, q + 2))
                     /\ At(s, q + 3) = ":"
                  THEN q + 3 ELSE 0
             ELSE q
    IN  IF r # 0 /\ IsDigit(At(s, r + 1)) /\ IsDigit(At(s, r + 2))
           /\ At(s, r + 3) = "." /\ IsDigit(At(s, r + 4))
           /\ IsDigit(At(s, r + 5)) /\ IsDigit(At(s, r + 6))
        THEN r + 7
        ELSE 0

\* <timestamp>\s*-->\s*<timestamp> at index p: the index after the match, or 0
RangeEnd(s, p, hours) ==
    LET e1 == TimestampEnd(s, p, hours)
        a == FirstNonSpace(s, e1)
    IN  IF e1 = 0 \/ ~StartsWithAt(s, a, <<"-", "-", ">">>) THEN 0
        ELSE TimestampEnd(s, FirstNonSpace(s, a + 3), hours)

\* lines 176-177: re.sub(<range>, " ", text), scanning from index p: the
\* leftmost match is replaced and the scan goes on after it
RECURSIVE ReplaceRanges(_, _, _)
ReplaceRanges(s, p, hours) ==
    LET starts == {q \in p..Len(s) : RangeEnd(s, q, hours) # 0}
    IN  IF starts = {} THEN SubSeq(s, p, Len(s))
        ELSE LET q == MinOf(starts)
             IN  SubSeq(s, p, q - 1) \o <<" ">>
                   \o ReplaceRanges(s, RangeEnd(s, q, hours), hours)

\* ^\s*\d+\s*$ with re.MULTILINE at index p: the index after the match, or 0;
\* "$" is the end of the text or the place before a "\n", and the trailing
\* \s* gives characters back until "$" matches
CueNumberEnd(s, p) ==
    LET a == FirstNonSpace(s, p)
        d == DigitsEnd(s, a)
        t == FirstNonSpace(s, d)
        ends == {q \in d..t : q = Len(s) + 1 \/ At(s, q) = "\n"}
    IN  IF (p = 1 \/ At(s, p - 1) = "\n") /\ d > a /\ ends # {}
        THEN MaxOf(ends)
        ELSE 0

\* the cue-number pass left out
RemoveCueNumbersSkipped(s, p) == s

\* line 178: re.sub(r"^\s*\d+\s*$", "", text, flags=re.MULTILINE)
RECURSIVE RemoveCueNumbers(_, _)
RemoveCueNumbers(s, p) ==
    LET starts == {q \in p..Len(s) : CueNumberEnd(s, q) # 0}
    IN  IF starts = {} THEN SubSeq(s, p, Len(s))
        ELSE LET q == MinOf(starts)
             IN  SubSeq(s, p, q - 1) \o RemoveCueNumbers(s, CueNumberEnd(s, q))

\* html.unescape (line 179): the named references amp, lt and gt, with or
\* without the closing ";", and the longest-prefix rule of the standard
\* library; numeric references are not in the alphabet
EntityChar(name) ==
    CASE name = <<"a", "m", "p">> -> "&"
      [] name = <<"l", "t">> -> "<"
      [] name = <<"g", "t">> -> ">"
      [] OTHER -> ""

IsNameChar(c) == c # "" /\ c \notin {"\t", "\n", " ", "<", "&", "#", ";"}

\* the index after the run of at most left name characters starting at p
NameEnd(s, p, left) ==
    Min(p + left, MinOf({k \in p..Len(s) + 1 : ~IsNameChar(At(s, k))}))

\* the reference starting at the "&" at index p: <<replacement, index after>>
\* or <<>> when the text there is no reference that is replaced
CharRef(s, p) ==
    LET e == NameEnd(s, p + 1, 32)
        name == SubSeq(s, p + 1, e - 1)
        semi == At(s, e) = ";"
        prefixes == {x \in 2..Len(name) : EntityChar(SubSeq(name, 1, x)) # ""}
    IN  IF e = p + 1 THEN <<>>
        ELSE IF EntityChar(name) # ""
        THEN <<EntityChar(name), IF semi THEN e + 1 ELSE e>>
        ELSE IF prefixes # {}
        THEN <<EntityChar(SubSeq(name, 1, MaxOf(prefixes))),
               p + 1 + MaxOf(prefixes)>>
        ELSE <<>>

RECURSIVE Unescape(_, _)
Unescape(s, p) ==
    LET starts == {q \in p..Len(s) : s[q] = "&" /\ CharRef(s, q) # <<>>}
    IN  IF starts = {} THEN SubSeq(s, p, Len(s))
        ELSE LET q == MinOf(starts)
             IN  SubSeq(s, p, q - 1) \o <<CharRef(s, q)[1]>>
                   \o Unescape(s, CharRef(s, q)[2])

html_unescape(s) == Unescape(s, 1)

strip_vtt_srt_artifacts(text) ==
    IF text = <<>> THEN <<>>
    ELSE html_unescape(
           RemoveCueNumbers(
             ReplaceRanges(
               ReplaceRanges(RemoveLeadingHeader(text), 1, TRUE), 1, FALSE),
             1))

(***************************************************************************)
(* _join_segments_for_nlp (main.py:183-192).  A segment is the text of its *)
(* "text" key.                                                             *)
(***************************************************************************)
ReplaceNewlines(t) == [k \in 1..Len(t) |-> IF t[k] = "\n" THEN " " ELSE t[k]]

join_segments_for_nlp(segments) ==
    LET kept == SelectSeq(segments, LAMBDA t : t # <<>>)
    IN  Join([k \in 1..Len(kept) |-> StrStrip(ReplaceNewlines(kept[k]))], <<" ">>)

(***************************************************************************)
(* sentence_segment_and_capitalize (main.py:231-247).                      *)
(***************************************************************************)
SentenceEnd == {".", "?", "!"}

\* re.split(r"(?<=[\.\?\!])\s+", text): the pieces from index from on
RECURSIVE SplitSentences(_, _)
SplitSentences(s, from) ==
    LET seps == {q \in from..Len(s) :
                   IsSpace(s[q]) /\ At(s, q - 1) \in SentenceEnd}
    IN  IF seps = {} THEN <<SubSeq(s, from, Len(s))>>
        ELSE LET q == MinOf(seps)
             IN  <<SubSeq(s, from, q - 1)>>
                   \o SplitSentences(s, FirstNonSpace(s, q))

\* the spans of a sentence-boundary model that starts a sentence at each
\* index of cuts
SpanSentences(s, cuts) ==
    LET starts == {1} \cup cuts
        n == Cardinality(starts)
        StartOf(k) == CHOOSE a \in starts : Cardinality({b \in starts : b < a}) = k - 1
    IN  [k \in 1..n |->
           SubSeq(s, StartOf(k), IF k = n THEN Len(s) ELSE StartOf(k + 1) - 1)]

\* [s.strip() for s in sents if s.strip()] (lines 236 and 239)
StripAndDropEmpty(pieces) ==
    SelectSeq([k \in 1..Len(pieces) |-> StrStrip(pieces[k])],
              LAMBDA t : t # <<>>)

\* what re.search(r"[A-Za-z0-9]", s) looks for (line 242)
IsAsciiAlnum(c) == c \in LowerAscii \cup UpperAscii \cup Digits

\* lines 242-245: the first match is uppercased in place
CapitalizeSentence(s) ==
    LET hits == {k \in 1..Len(s) : IsAsciiAlnum(s[k])}
    IN  IF hits = {} THEN s
        ELSE [s EXCEPT ![MinOf(hits)] = Upper(s[MinOf(hits)])]

\* lines 240-246
CapitalizeAll(sentences) ==
    [k \in 1..Len(sentences) |-> CapitalizeSentence(sentences[k])]

\* lines 234-239: the sentences, by the model when it is loaded (it starts a
\* sentence at each index of cuts), by the regular expression otherwise
Sentences(text, spacy, cuts) ==
    StripAndDropEmpty(IF spacy THEN SpanSentences(text, cuts)
                      ELSE SplitSentences(text, 1))

sentence_segment_and_capitalize(text, spacy, cuts) ==
    IF text = <<>> THEN <<>>
    ELSE Join(CapitalizeAll(Sentences(text, spacy, cuts)), <<" ">>)

(***************************************************************************)
(* The final normalisation of clean_transcript_nlp (main.py:269-271).      *)
(***************************************************************************)
Punct == {",", ".", ";", ":", "!", "?"}

\* line 269: re.sub(r"\s+([,.;:!?])", r"\1", final)
RemoveSpaceBeforePunct(s) ==
    Concat([k \in 1..Len(s) |->
              IF IsSpace(s[k]) /\ At(s, FirstNonSpace(s, k)) \in Punct
              THEN <<>> ELSE <<s[k]>>])

\* the replacement written without its space
InsertSpaceAfterPunctNoSpace(s, p) == s

\* line 270: re.sub(r"([,.;:!?])([^\s])", r"\1 \2", final), scanning from p;
\* a match takes both characters, so the second is not looked at again
RECURSIVE InsertSpaceAfterPunct(_, _)
InsertSpaceAfterPunct(s, p) ==
    LET starts == {q \in p..Len(s) - 1 : s[q] \in Punct /\ ~IsSpace(s[q + 1])}
    IN  IF starts = {} THEN SubSeq(s, p, Len(s))
        ELSE LET q == MinOf(starts)
             IN  SubSeq(s, p, q - 1) \o <<s[q], " ", s[q + 1]>>
                   \o InsertSpaceAfterPunct(s, q + 2)

\* lines 269-271
NormalizeSpacing(s) ==
    NormalizeWs(InsertSpaceAfterPunct(RemoveSpaceBeforePunct(s), 1))

(***************************************************************************)
(* yt_dlp_fetch_subtitles: reading one candidate file (main.py:325-346).   *)
(***************************************************************************)
\* str.splitlines() for the line breaks "\n", "\r" and "\r\n": the lines
\* from index from on
RECURSIVE SplitLines(_, _)
SplitLines(s, from) ==
    LET breaks == {q \in from..Len(s) : s[q] = "\n" \/ s[q] = "\r"}
    IN  IF breaks = {}
        THEN IF from > Len(s) THEN <<>> ELSE <<SubSeq(s, from, Len(s))>>
        ELSE LET q == MinOf(breaks)
                 e == IF s[q] = "\r" /\ At(s, q + 1) = "\n" THEN q + 2 ELSE q + 1
             IN  <<SubSeq(s, from, q - 1)>> \o SplitLines(s, e)

splitlines(s) == SplitLines(s, 1)

\* str.isdigit()
IsDigitStr(s) == s # <<>> /\ \A k \in 1..Len(s) : IsDigit(s[k])

\* the three tests of lines 334-339: the line is skipped
FileLineDropped(line) ==
    \/ StartsWithAt(UpperStr(StrStrip(line)), 1, WEBVTT)
    \/ Contains(line, <<"-", "-", ">">>)
    \/ IsDigitStr(StrStrip(line))

ReadableExts == {"vtt", "srt", "txt", "webvtt"}

\* lines 331-345 for a candidate with a readable extension: the text taken
\* from the file, <<>> when the file gives none
SubtitleText(ext, content) ==
    LET txt == IF ext = "vtt"
                  \/ StartsWithAt(UpperStr(StrStrip(content)), 1, WEBVTT)
               THEN StrStrip(Join(SelectSeq(splitlines(content),
                                            LAMBDA l : ~FileLineDropped(l)),
                                  <<"\n">>))
               ELSE StrStrip(content)
    IN  IF txt # <<>> THEN html_unescape(txt) ELSE <<>>

(***************************************************************************)
(* State.                                                                  *)
(***************************************************************************)
VARIABLES
    pc,                \* the statement the pipeline is at
    PUNCT_AVAILABLE,   \* main.py:52, set once at import
    SPACY_AVAILABLE,   \* main.py:53, set once at import
    source,            \* clean_transcript_nlp: its argument, a list of segments
    raw,               \* clean_transcript_nlp: raw after line 263
    raw_text,          \* restore_punctuation_and_case: its argument
    i,                 \* restore_punctuation_and_case: the loop variable i
    chunks,            \* restore_punctuation_and_case: chunks
    restored_chunks,   \* restore_punctuation_and_case: restored_chunks
    restored,          \* restore_punctuation_and_case: the value returned
    model_out,         \* history: what PUNCT_MODEL returned per chunk
    failed,            \* history: the chunks on which PUNCT_MODEL raised
    sents,             \* sentence_segment_and_capitalize: sents
    cap_sents,         \* sentence_segment_and_capitalize: cap_sents
    segmented,         \* clean_transcript_nlp: final after line 268
    final,             \* clean_transcript_nlp: the value returned
    ext,               \* a subtitle file: its extension
    content,           \* a subtitle file: its content
    strip_once,        \* _strip_vtt_srt_artifacts(content)
    strip_twice,       \* _strip_vtt_srt_artifacts(strip_once)
    file_text,         \* the text yt_dlp_fetch_subtitles takes from the file
    queue,             \* the video URLs to process, in order
    video,             \* the index in queue of the video being processed
    state,             \* TranscriptSourceChain: its state
    pending,           \* the outcome of the strategy just invoked
    trace,             \* the AttemptRecords of the video being processed
    invoked,           \* history: the strategies invoked for this video
    CleanTranscript,   \* the clean transcript of the video being processed
    RawTranscript,     \* the raw transcript of the video being processed
    finalized,         \* DONE has set the final CleanTranscript
    dir,               \* the files of YT_DLP_OUTDIR (main.py:112)
    clock,             \* the modification time of the newest file
    cleaned            \* clean_transcript_nlp of each text the chain can meet

restoreVars == <<PUNCT_AVAILABLE, raw_text, i, chunks, restored_chunks,
                 restored, model_out, failed>>
cleanVars == <<SPACY_AVAILABLE, source, raw, sents, cap_sents, segmented, final>>

stripVars == <<ext, content, strip_once, strip_twice, file_text>>

chainVars == <<queue, video, state, pending, trace, invoked, CleanTranscript,
               RawTranscript, finalized, dir, clock, cleaned>>

vars == <<pc, restoreVars, cleanVars, stripVars, chainVars>>

(***************************************************************************)
(* restore_punctuation_and_case (main.py:195-228).                         *)
(***************************************************************************)
max_chunk == 2000
overlap == 50

\* the chunk appended by one pass of the while loop at offset at (lines 208-215)
ChunkAt(text, at) ==
    LET n == Len(text)
        end == Min(at + max_chunk, n)
        c0 == Slice(text, at, end)
        c1 == IF at # 0 THEN Slice(text, Max(0, at - overlap), end) ELSE c0
        c2 == IF end < n THEN Slice(text, at, end + overlap) ELSE c1
    IN  c2

\* what PUNCT_MODEL.restore_punctuation may return for a chunk: the model is
\* an external collaborator, any text is possible
ModelOutputs(c) == {Append(c, "."), <<" ">>}

\* a failed chunk dropped instead of kept as it was
OnChunkFailedDropped(rc, c) == rc

\* the except branch of the per-chunk try (lines 223-225)
OnChunkFailed(rc, c) == Append(rc, c)

\* lines 197-206
RestoreEntry ==
    /\ pc = "restore"
    /\ IF raw_text = <<>>
         THEN restored' = <<>> /\ pc' = "restored"
         ELSE IF ~PUNCT_AVAILABLE
         THEN restored' = raw_text /\ pc' = "restored"
         ELSE restored' = restored /\ pc' = "chunking"
    /\ i' = 0
    /\ chunks' = <<>>
    /\ restored_chunks' = <<>>
    /\ UNCHANGED <<PUNCT_AVAILABLE, raw_text, model_out, failed, cleanVars, stripVars, chainVars>>

\* one pass of the while loop (lines 207-217)
ChunkStep ==
    /\ pc = "chunking"
    /\ i < Len(raw_text)
    /\ chunks' = Append(chunks, ChunkAt(raw_text, i))
    /\ i' = Min(i + max_chunk, Len(raw_text))
    /\ UNCHANGED <<pc, PUNCT_AVAILABLE, raw_text, restored_chunks, restored,
                   model_out, failed, cleanVars, stripVars, chainVars>>

\* the while loop ends (line 207)
ChunkDone ==
    /\ pc = "chunking"
    /\ ~(i < Len(raw_text))
    /\ pc' = "restoring"
    /\ UNCHANGED <<restoreVars, cleanVars, stripVars, chainVars>>

\* one pass of the for loop, the model returning (lines 219-222)
RestoreChunkOk ==
    /\ pc = "restoring"
    /\ Len(restored_chunks) < Len(chunks)
    /\ \E out \in ModelOutputs(chunks[Len(restored_chunks) + 1]) :
          /\ restored_chunks' = Append(restored_chunks, out)
          /\ model_out' = Append(model_out, out)
    /\ UNCHANGED <<pc, PUNCT_AVAILABLE, raw_text, i, chunks, restored, failed,
                   cleanVars, stripVars, chainVars>>

\* one pass of the for loop, the model raising (lines 219-225)
RestoreChunkFails ==
    /\ pc = "restoring"
    /\ Len(restored_chunks) < Len(chunks)
    /\ restored_chunks' =
          OnChunkFailed(restored_chunks, chunks[Len(restored_chunks) + 1])
    /\ model_out' = Append(model_out, <<>>)
    /\ failed' = failed \cup {Len(restored_chunks) + 1}
    /\ UNCHANGED <<pc, PUNCT_AVAILABLE, raw_text, i, chunks, restored,
                   cleanVars, stripVars, chainVars>>

\* lines 226-228
RestoreReturn ==
    /\ pc = "restoring"
    /\ Len(restored_chunks) = Len(chunks)
    /\ restored' = NormalizeWs(Join(restored_chunks, <<" ">>))
    /\ pc' = "restored"
    /\ UNCHANGED <<PUNCT_AVAILABLE, raw_text, i, chunks, restored_chunks,
                   model_out, failed, cleanVars, stripVars, chainVars>>

RestoreStep ==
    \/ RestoreEntry
    \/ ChunkStep
    \/ ChunkDone
    \/ RestoreChunkOk
    \/ RestoreChunkFails
    \/ RestoreReturn

(***************************************************************************)
(* clean_transcript_nlp (main.py:250-272).                                 *)
(***************************************************************************)
\* the sets of indices at which a sentence-boundary model may start a
\* sentence: a sentence starts at a token, that is after whitespace or at or
\* after a punctuation mark
TokenStarts(text) ==
    {k \in 2..Len(text) :
        (IsSpace(text[k - 1]) /\ ~IsSpace(text[k]))
        \/ (~IsSpace(text[k]) /\ (text[k] \in Punct \/ text[k - 1] \in Punct))}

RECURSIVE CutSetsUpTo(_, _)
CutSetsUpTo(starts, m) ==
    IF m = 0 THEN {{}}
    ELSE LET less == CutSetsUpTo(starts, m - 1)
         IN  less \cup {c \cup {a} : c \in less, a \in starts}

\* lines 258-265: the segments are joined, stripped and collapsed, and the
\* restorer is called
CleanBegin ==
    /\ pc = "clean"
    /\ raw' = NormalizeWs(strip_vtt_srt_artifacts(join_segments_for_nlp(source)))
    /\ raw_text' = raw'
    /\ pc' = "restore"
    /\ UNCHANGED <<PUNCT_AVAILABLE, i, chunks, restored_chunks, restored,
                   model_out, failed, SPACY_AVAILABLE, source, sents, cap_sents,
                   segmented, final, stripVars, chainVars>>

\* lines 268-272, with sentence_segment_and_capitalize
CleanFinish ==
    /\ pc = "restored"
    /\ \E cuts \in IF SPACY_AVAILABLE
                   THEN CutSetsUpTo(TokenStarts(restored), MaxCuts)
                   ELSE {{}} :
          /\ sents' = IF restored = <<>> THEN <<>>
                      ELSE Sentences(restored, SPACY_AVAILABLE, cuts)
          /\ segmented' =
                sentence_segment_and_capitalize(restored, SPACY_AVAILABLE, cuts)
    /\ cap_sents' = CapitalizeAll(sents')
    /\ final' = NormalizeSpacing(segmented')
    /\ pc' = "done"
    /\ UNCHANGED <<restoreVars, SPACY_AVAILABLE, source, raw, stripVars, chainVars>>

(***************************************************************************)
(* The parts of the state a specification does not use.                    *)
(***************************************************************************)
IdleRestore ==
    /\ raw_text = <<>>
    /\ i = 0
    /\ chunks = <<>>
    /\ restored_chunks = <<>>
    /\ restored = <<>>
    /\ model_out = <<>>
    /\ failed = {}

IdleClean ==
    /\ source = <<>>
    /\ raw = <<>>
    /\ sents = <<>>
    /\ cap_sents = <<>>
    /\ segmented = <<>>
    /\ final = <<>>

IdleStrip ==
    /\ ext = ""
    /\ content = <<>>
    /\ strip_once = <<>>
    /\ strip_twice = <<>>
    /\ file_text = <<>>

NoPending ==
    [strategy |-> "none", outcome |-> "none", segments |-> <<>>, text |-> <<>>,
     note |-> "", from |-> <<>>]

IdleChain ==
    /\ queue = <<>>
    /\ video = 0
    /\ state = "DONE"
    /\ pending = NoPending
    /\ trace = <<>>
    /\ invoked = <<>>
    /\ CleanTranscript = <<>>
    /\ RawTranscript = <<>>
    /\ finalized = TRUE
    /\ dir = {}
    /\ clock = 0
    /\ cleaned = {}

(***************************************************************************)
(* The restorer alone, on long texts.                                      *)
(***************************************************************************)
PatternLetters == <<"a", "b", "c", "d", "e", "f">>
PatternChar(k) ==
    IF k % 7 = 0 \/ (k % 7 = 6 /\ k % 3 = 0) THEN " " ELSE PatternLetters[k % 7]
TextOfLen(n) == [k \in 1..n |-> PatternChar(k)]

RestoreLengths ==
    {k * max_chunk + j * overlap + d :
        k \in 0..MaxWindows, j \in 0..1, d \in 0..MaxDelta}

InitRestore ==
    /\ pc = "restore"
    /\ PUNCT_AVAILABLE \in BOOLEAN
    /\ raw_text \in {TextOfLen(n) : n \in RestoreLengths}
    /\ i = 0
    /\ chunks = <<>>
    /\ restored_chunks = <<>>
    /\ restored = <<>>
    /\ model_out = <<>>
    /\ failed = {}
    /\ SPACY_AVAILABLE = FALSE
    /\ IdleClean
    /\ IdleStrip
    /\ IdleChain

NextRestore == RestoreStep

SpecRestore == InitRestore /\ [][NextRestore]_vars

(***************************************************************************)
(* The cleaning pipeline on lists of segments.                             *)
(***************************************************************************)
SegTexts ==
    { <<>>,
      <<" ">>,
      <<"7">>,
      <<"0", "0", ":", "0", "1", ".", "0", "0", "0", " ", "-", "-", ">", " ",
        "0", "0", ":", "0", "2", ".", "0", "0", "0">>,
      <<"0", "0", ":", "0", "1", ",", "0", "0", "0", " ", "-", "-", ">", " ",
        "0", "0", ":", "0", "2", ",", "0", "0", "0">>,
      <<"h", "i", " ", "y", "o", "u">>,
      <<"a", ".", ".", "b">>,
      <<"e-acute", "l", "a", "n">>,
      <<"\"", "o", "k", " ", ",", "s", "o", ".", " ", "y", "e", "s">>,
      <<"?", "!">> }

RECURSIVE SeqsUpTo(_, _)
SeqsUpTo(S, n) ==
    IF n = 0 THEN {<<>>}
    ELSE LET less == SeqsUpTo(S, n - 1)
         IN  less \cup {Append(q, x) : q \in less, x \in S}

InitClean ==
    /\ pc = "clean"
    /\ PUNCT_AVAILABLE \in BOOLEAN
    /\ SPACY_AVAILABLE \in BOOLEAN
    /\ source \in SeqsUpTo(SegTexts, MaxSegs) \ {<<>>}
    /\ raw = <<>>
    /\ sents = <<>>
    /\ cap_sents = <<>>
    /\ segmented = <<>>
    /\ final = <<>>
    /\ IdleRestore
    /\ IdleStrip
    /\ IdleChain

NextClean ==
    \/ CleanBegin
    \/ RestoreStep
    \/ CleanFinish

SpecClean == InitClean /\ [][NextClean]_vars

(***************************************************************************)
(* The two places that remove subtitle artifacts, on the same file content.*)
(***************************************************************************)
\* line 262 on the file's content
StripOnce ==
    /\ pc = "strip"
    /\ strip_once' = strip_vtt_srt_artifacts(content)
    /\ pc' = "strip_again"
    /\ UNCHANGED <<restoreVars, cleanVars, chainVars, ext, content,
                   strip_twice, file_text>>

\* the stripper applied to its own result
StripTwice ==
    /\ pc = "strip_again"
    /\ strip_twice' = strip_vtt_srt_artifacts(strip_once)
    /\ pc' = "read"
    /\ UNCHANGED <<restoreVars, cleanVars, chainVars, ext, content,
                   strip_once, file_text>>

\* lines 331-345 on the file
ReadSubtitleFile ==
    /\ pc = "read"
    /\ file_text' = SubtitleText(ext, content)
    /\ pc' = "done"
    /\ UNCHANGED <<restoreVars, cleanVars, chainVars, ext, content,
                   strip_once, strip_twice>>

FileLines ==
    { <<"W", "E", "B", "V", "T", "T">>,
      <<"7">>,
      <<"0", "0", ":", "0", "0", ":", "0", "1", ".", "0", "0", "0", " ", "-",
        "-", ">", " ", "0", "0", ":", "0", "0", ":", "0", "2", ".", "0", "0",
        "0">>,
      <<"0", "0", ":", "0", "0", ":", "0", "1", ".", "0", "0", "0", " ", "-",
        "-", ">", " ", "0", "0", ":", "0", "0", ":", "0", "2", ".", "0", "0",
        "0", " ", "a", "l", "i", "g", "n", ":", "s", "t", "a", "r", "t">>,
      <<"0", "0", ":", "0", "0", ":", "0", "1", ",", "0", "0", "0", " ", "-",
        "-", ">", " ", "0", "0", ":", "0", "0", ":", "0", "2", ",", "0", "0",
        "0">>,
      <<"h", "i">>,
      <<"&", "a", "m", "p", ";", "l", "t", ";">>,
      <<>> }

InitStrip ==
    /\ pc = "strip"
    /\ PUNCT_AVAILABLE = FALSE
    /\ SPACY_AVAILABLE = FALSE
    /\ ext \in {"vtt", "srt"}
    /\ content \in {Join(ls, <<"\n">>) : ls \in SeqsUpTo(FileLines, MaxLines) \ {<<>>}}
    /\ strip_once = <<>>
    /\ strip_twice = <<>>
    /\ file_text = <<>>
    /\ IdleRestore
    /\ IdleClean
    /\ IdleChain

NextStrip ==
    \/ StripOnce
    \/ StripTwice
    \/ ReadSubtitleFile

SpecStrip == InitStrip /\ [][NextStrip]_vars

(***************************************************************************)
(* yt_dlp_fetch_subtitles on the shared output directory                   *)
(* (main.py:278-347).                                                      *)
(***************************************************************************)
WatchMarker ==
    <<"w", "a", "t", "c", "h", "?", "v", "=">>

\* str.split(sep)[-1] for a separator that cannot overlap itself
AfterLast(s, sep) ==
    LET at == {p \in 1..Len(s) : StartsWithAt(s, p, sep)}
    IN  IF at = {} THEN s ELSE SubSeq(s, MaxOf(at) + Len(sep), Len(s))

\* str.split(sep)[0]
BeforeFirst(s, sep) ==
    LET at == {p \in 1..Len(s) : StartsWithAt(s, p, sep)}
    IN  IF at = {} THEN s ELSE SubSeq(s, 1, MinOf(at) - 1)

\* str.rstrip(c) for one character c
RStripChar(s, c) ==
    LET keep == {k \in 1..Len(s) : s[k] # c}
    IN  IF keep = {} THEN <<>> ELSE SubSeq(s, 1, MaxOf(keep))

\* lines 313-317: the id the files are looked up by
VideoIdOf(video_url) ==
    IF Contains(video_url, WatchMarker)
    THEN BeforeFirst(AfterLast(video_url, WatchMarker), <<"&">>)
    ELSE AfterLast(RStripChar(video_url, "/"), <<"/">>)

\* the message of an exception raised by subprocess.run
RunExceptionText == <<"t", "i", "m", "e", "d", " ", "o", "u", "t">>

\* the two values of the returned pair in the other order
OnRunExceptionSwapped(diag) == [text |-> diag, note |-> ""]
\* lines 308-311: what is returned when running yt-dlp raises (a timeout
\* included): no text, and the exception as diagnostics
OnRunException(diag) == [text |-> <<>>, note |-> "yt-dlp-run-exception"]

\* lines 325-346: a candidate the loop stops at, one with a readable
\* extension whose content gives a non-empty text
GivesText(f) ==
    f.ext \in ReadableExts /\ SubtitleText(f.ext, f.content) # <<>>

\* line 322: how many of the most recently modified files are looked at
RecentLimit == 6

\* lines 318-322: the candidates, the files named after the id when there
\* are any and the RecentLimit most recently modified files otherwise
Candidates(files, vid) ==
    LET matched == IF vid # <<>> THEN {f \in files : f.id = vid} ELSE {}
    IN  IF matched # {} THEN matched
        ELSE {f \in files :
                Cardinality({g \in files : g.mtime > f.mtime}) < RecentLimit}

\* whether the candidates come from the glob of line 320, whose order is
\* not specified, or from the sort by modification time of line 322
MatchedById(files, vid) == vid # <<>> /\ \E f \in files : f.id = vid

\* lines 323-346: the files the loop over the candidates can stop at: any
\* id-matched file that gives text, or, of the recent files, the newest one
\* that gives text
PickedFiles(files, vid) ==
    LET giving == {f \in Candidates(files, vid) : GivesText(f)}
    IN  IF MatchedById(files, vid) THEN giving
        ELSE {f \in giving : \A g \in giving : g.mtime <= f.mtime}

\* line 299 and the files yt-dlp leaves behind: it raises (or times out),
\* writes no subtitle file, or writes <id>.<lang>.<ext> for the video
WrittenFiles ==
    {[ext |-> "vtt",
      content |-> <<"W", "E", "B", "V", "T", "T", "\n", "\n", "0", "0", ":", "0",
                    "1", ".", "0", "0", "0", " ", "-", "-", ">", " ", "0", "0",
                    ":", "0", "2", ".", "0", "0", "0", "\n", "h", "i">>],
     [ext |-> "vtt", content |-> <<"W", "E", "B", "V", "T", "T", "\n">>],
     [ext |-> "srt", content |-> <<"y", "o", ".", " ", "o", "k">>]}

ToolOutcomes ==
    {[kind |-> "raises", ext |-> "", content |-> <<>>],
     [kind |-> "nothing", ext |-> "", content |-> <<>>]}
    \cup {[kind |-> "writes", ext |-> w.ext, content |-> w.content] :
            w \in WrittenFiles}

(***************************************************************************)
(* TranscriptSourceChain, one video after another (specification 4.2).     *)
(***************************************************************************)
DisabledSentinel ==
    <<"T", "r", "a", "n", "s", "c", "r", "i", "p", "t", "s", " ", "d", "i",
      "s", "a", "b", "l", "e", "d">>
CouldNotRetrieveSentinel ==
    <<"C", "o", "u", "l", "d", " ", "n", "o", "t", " ", "r", "e", "t", "r",
      "i", "e", "v", "e", " ", "t", "r", "a", "n", "s", "c", "r", "i", "p",
      "t", ".", " ", "S", "e", "e", " ", "d", "i", "a", "g", ".">>
DisabledWord ==
    <<"d", "i", "s", "a", "b", "l", "e", "d">>

Strategies == <<"API", "AUTO_SUBS", "UPLOADED_SUBS">>

StrategyOf(st) ==
    CASE st = "TRY_API" -> "API"
      [] st = "TRY_AUTO_SUBS" -> "AUTO_SUBS"
      [] st = "TRY_UPLOADED_SUBS" -> "UPLOADED_SUBS"

\* lines 143-156 on segments that are texts
safe_join_segments(segs) ==
    LET stripped == [k \in 1..Len(segs) |-> StrStrip(segs[k])]
        kept == SelectSeq(stripped, LAMBDA t : t # <<>>)
    IN  Join([k \in 1..Len(kept) |-> ReplaceNewlines(kept[k])], <<" ">>)

\* lines 250-272 when neither model is installed
clean_text(raw_joined) ==
    NormalizeSpacing(
        sentence_segment_and_capitalize(
            NormalizeWs(strip_vtt_srt_artifacts(raw_joined)), FALSE, {}))

\* the API branch gave text that is taken as the transcript
Usable(clean) ==
    /\ clean # <<>>
    /\ clean # DisabledSentinel
    /\ ~Contains(clean, DisabledWord)

\* the videos, one URL of each form
Urls ==
    { <<"y", "t", "/", "w", "a", "t", "c", "h", "?", "v", "=", "a", "1", "&",
        "t", "=", "2">>,
      <<"y", "t", "/", "b", "2", "/">> }

\* what the API's track can hold: a transcript, one that speaks of something
\* disabled, and one without text
ApiSegments ==
    { << <<"h", "e", "l", "l", "o">>, <<"w", "o", "r", "l", "d", "\n">> >>,
      << <<"i", "t", " ", "i", "s", " ", "d", "i", "s", "a", "b", "l", "e", "d">> >>,
      << <<" ">> >> }

\* the texts the chain can be given to clean
ChainTexts ==
    {join_segments_for_nlp(segs) : segs \in ApiSegments}
    \cup {SubtitleText(w.ext, w.content) : w \in WrittenFiles}
    \cup {RunExceptionText}

\* clean_text(t), looked up in the results computed when the run starts
CleanOf(t) == (CHOOSE pair \in cleaned : pair[1] = t)[2]

ApiOutcomes ==
    {[kind |-> k, segments |-> <<>>] : k \in {"disabled", "not_found", "error"}}
    \cup {[kind |-> "success", segments |-> segs] :
            segs \in ApiSegments}

\* every attempt appends one AttemptRecord, a successful one too
RecordedUnlessSucceeded(tr, strategy, succeeded, note) ==
    IF succeeded THEN tr
    ELSE Append(tr, [strategy |-> strategy, succeeded |-> FALSE, note |-> note])
Recorded(tr, strategy, succeeded, note) ==
    Append(tr, [strategy |-> strategy, succeeded |-> succeeded, note |-> note])

\* TRY_API: the transcript API is asked
InvokeApi ==
    /\ pc = "chain"
    /\ state = "TRY_API"
    /\ pending = NoPending
    /\ \E out \in ApiOutcomes :
          /\ pending' = [strategy |-> "API", outcome |-> out.kind,
                         segments |-> out.segments, text |-> <<>>,
                         note |-> IF out.kind = "success" THEN ""
                                  ELSE IF out.kind = "disabled"
                                       THEN "transcripts_disabled"
                                       ELSE out.kind,
                         from |-> <<>>]
          /\ invoked' = Append(invoked, [strategy |-> "API", outcome |-> out.kind])
    /\ UNCHANGED <<pc, restoreVars, cleanVars, stripVars, cleaned, queue, video, state,
                   trace, CleanTranscript, RawTranscript, finalized, dir, clock>>

\* TRY_API: the outcome is recorded and the next state chosen
RecordApi ==
    /\ pc = "chain"
    /\ state = "TRY_API"
    /\ pending # NoPending
    /\ trace' = Recorded(trace, "API", pending.outcome = "success", pending.note)
    /\ RawTranscript' = IF pending.outcome = "success"
                        THEN safe_join_segments(pending.segments)
                        ELSE RawTranscript
    /\ CleanTranscript' =
          IF pending.outcome = "success"
          THEN CleanOf(join_segments_for_nlp(pending.segments))
          ELSE IF pending.outcome = "disabled" THEN DisabledSentinel
               ELSE CleanTranscript
    /\ state' = IF Usable(CleanTranscript') THEN "DONE" ELSE "TRY_AUTO_SUBS"
    /\ pending' = NoPending
    /\ UNCHANGED <<pc, restoreVars, cleanVars, stripVars, cleaned, queue, video, invoked,
                   finalized, dir, clock>>

\* TRY_AUTO_SUBS and TRY_UPLOADED_SUBS: yt_dlp_fetch_subtitles is called
\* (main.py:278-347); a file yt-dlp writes replaces the one of the same name
InvokeSubs ==
    /\ pc = "chain"
    /\ state \in {"TRY_AUTO_SUBS", "TRY_UPLOADED_SUBS"}
    /\ pending = NoPending
    /\ \E out \in ToolOutcomes :
          LET vid == VideoIdOf(queue[video])
              written == IF out.kind = "writes"
                         THEN {[id |-> vid, ext |-> out.ext,
                                content |-> out.content, mtime |-> clock + 1,
                                by |-> <<video, StrategyOf(state)>>]}
                         ELSE {}
              files == {f \in dir : written = {} \/ f.id # vid \/ f.ext # out.ext}
                         \cup written
              picked == PickedFiles(files, vid)
          IN  /\ dir' = files
              /\ clock' = IF written = {} THEN clock ELSE clock + 1
              /\ invoked' = Append(invoked, [strategy |-> StrategyOf(state),
                                             outcome |-> out.kind])
              /\ IF out.kind = "raises"
                 THEN pending' = [strategy |-> StrategyOf(state),
                                  outcome |-> out.kind, segments |-> <<>>,
                                  text |-> OnRunException(RunExceptionText).text,
                                  note |-> OnRunException(RunExceptionText).note,
                                  from |-> <<>>]
                 ELSE IF picked = {}
                 THEN pending' = [strategy |-> StrategyOf(state),
                                  outcome |-> out.kind, segments |-> <<>>,
                                  text |-> <<>>, note |-> "diag", from |-> <<>>]
                 ELSE \E f \in picked :
                         pending' = [strategy |-> StrategyOf(state),
                                     outcome |-> out.kind, segments |-> <<>>,
                                     text |-> SubtitleText(f.ext, f.content),
                                     note |-> "diag", from |-> f.by]
    /\ UNCHANGED <<pc, restoreVars, cleanVars, stripVars, cleaned, queue, video, state,
                   trace, CleanTranscript, RawTranscript, finalized>>

\* TRY_AUTO_SUBS and TRY_UPLOADED_SUBS: non-empty text is cleaned and ends
\* the chain; otherwise the diagnostic is recorded and the chain proceeds,
\* after the last strategy to DONE with an empty CleanTranscript
RecordSubs ==
    /\ pc = "chain"
    /\ state \in {"TRY_AUTO_SUBS", "TRY_UPLOADED_SUBS"}
    /\ pending # NoPending
    /\ trace' = Recorded(trace, pending.strategy, pending.text # <<>>,
                         IF pending.text # <<>> THEN "" ELSE pending.note)
    /\ IF pending.text # <<>>
       THEN /\ RawTranscript' = pending.text
            /\ CleanTranscript' = CleanOf(pending.text)
            /\ state' = "DONE"
       ELSE IF state = "TRY_AUTO_SUBS"
       THEN /\ state' = "TRY_UPLOADED_SUBS"
            /\ UNCHANGED <<RawTranscript, CleanTranscript>>
       ELSE /\ state' = "DONE"
            /\ CleanTranscript' = <<>>
            /\ UNCHANGED RawTranscript
    /\ pending' = NoPending
    /\ UNCHANGED <<pc, restoreVars, cleanVars, stripVars, cleaned, queue, video, invoked,
                   finalized, dir, clock>>

\* DONE: an empty CleanTranscript becomes the sentinel
Finish ==
    /\ pc = "chain"
    /\ state = "DONE"
    /\ ~finalized
    /\ CleanTranscript' = IF CleanTranscript = <<>> THEN CouldNotRetrieveSentinel
                          ELSE CleanTranscript
    /\ finalized' = TRUE
    /\ UNCHANGED <<pc, restoreVars, cleanVars, stripVars, cleaned, queue, video, state,
                   pending, trace, invoked, RawTranscript, dir, clock>>

\* the next video of the queue starts with a trace and transcripts of its
\* own; the output directory is the same
NextVideo ==
    /\ pc = "chain"
    /\ finalized
    /\ video < Len(queue)
    /\ video' = video + 1
    /\ state' = "TRY_API"
    /\ trace' = <<>>
    /\ invoked' = <<>>
    /\ CleanTranscript' = <<>>
    /\ RawTranscript' = <<>>
    /\ finalized' = FALSE
    /\ UNCHANGED <<pc, restoreVars, cleanVars, stripVars, cleaned, queue, pending, dir,
                   clock>>

InitChain ==
    /\ pc = "chain"
    /\ PUNCT_AVAILABLE = FALSE
    /\ SPACY_AVAILABLE = FALSE
    /\ queue \in SeqsUpTo(Urls, MaxVideos) \ {<<>>}
    /\ video = 1
    /\ state = "TRY_API"
    /\ pending = NoPending
    /\ trace = <<>>
    /\ invoked = <<>>
    /\ CleanTranscript = <<>>
    /\ RawTranscript = <<>>
    /\ finalized = FALSE
    /\ dir = {}
    /\ clock = 0
    /\ cleaned = {<<t, clean_text(t)>> : t \in ChainTexts}
    /\ IdleRestore
    /\ IdleClean
    /\ IdleStrip

NextChain ==
    \/ InvokeApi
    \/ RecordApi
    \/ InvokeSubs
    \/ RecordSubs
    \/ Finish
    \/ NextVideo

SpecChain == InitChain /\ [][NextChain]_vars

\* every step of the chain returns: the calls are synchronous and the
\* subprocess is bounded by its timeout
SpecChainFair == SpecChain /\ WF_vars(NextChain)

(***************************************************************************)
(* Properties of restore_punctuation_and_case.                             *)
(***************************************************************************)
\* the window the specification describes for chunk k of count
DescribedWindow(text, k, count) ==
    LET n == Len(text)
        start == (k - 1) * max_chunk
        lo == IF k = 1 THEN 0 ELSE Max(0, start - overlap)
        hi == IF k = count THEN n ELSE Min(n, start + max_chunk + overlap)
    IN  Slice(text, lo, hi)

\* C1: once the text is chunked, every window covers the characters
\* [max(0, start-50), min(n, start+2000+50)), the first window without the
\* backward extension and the last without the forward one.
C1_WindowCoverage ==
    pc \in {"restoring", "restored"} =>
        \A k \in 1..Len(chunks) :
            chunks[k] = DescribedWindow(raw_text, k, Len(chunks))

\* what each window contributes: its own text when the model raised on it,
\* the model's output otherwise
Contribution(k) == IF k \in failed THEN chunks[k] ELSE model_out[k]

\* C10: the function returns whatever windows fail; a failed window
\* contributes its original text and any other the model's output, in window
\* order, joined by one space (and whitespace-normalised); with no model the
\* input is returned unchanged.
C10_FailedWindowsDegradeAlone ==
    /\ pc = "restoring" =>
          /\ Len(restored_chunks) <= Len(chunks)
          /\ \A k \in 1..Len(restored_chunks) :
                restored_chunks[k] = Contribution(k)
    /\ pc = "restored" =>
          IF raw_text = <<>> \/ ~PUNCT_AVAILABLE THEN restored = raw_text
          ELSE /\ Len(restored_chunks) = Len(chunks)
               /\ \A k \in 1..Len(chunks) : restored_chunks[k] = Contribution(k)
               /\ restored = NormalizeWs(
                     Join([k \in 1..Len(chunks) |-> Contribution(k)], <<" ">>))

\* a run of three windows in which the middle one failed and the others did not
C10_Witness ==
    /\ pc = "restored"
    /\ PUNCT_AVAILABLE
    /\ Len(chunks) = 3
    /\ failed = {2}
    /\ restored # <<>>

(***************************************************************************)
(* Properties of clean_transcript_nlp.                                     *)
(***************************************************************************)
Arrow == <<"-", "-", ">">>

IsBlank(s) == \A k \in 1..Len(s) : IsSpace(s[k])

\* a timing range of one of the two dotted forms starts somewhere in s
HasDottedRange(s) ==
    \E p \in 1..Len(s) : RangeEnd(s, p, TRUE) # 0 \/ RangeEnd(s, p, FALSE) # 0

\* s is nothing but digits, or nothing but one dotted timing range
OnlyDigitsOrRange(s) ==
    \/ IsDigitStr(s)
    \/ s # <<>> /\ (RangeEnd(s, 1, TRUE) = Len(s) + 1
                    \/ RangeEnd(s, 1, FALSE) = Len(s) + 1)

Spaced(s) ==
    \A k \in 1..Len(s) :
        s[k] \in Punct =>
            /\ ~IsSpace(At(s, k - 1))
            /\ k < Len(s) => (s[k + 1] = " " /\ ~IsSpace(At(s, k + 2)))

\* no two punctuation marks stand side by side or with only whitespace
\* between them
NoAdjacentPunct(s) ==
    \A k \in 1..Len(s) :
        s[k] \in Punct => At(s, FirstNonSpace(s, k + 1)) \notin Punct

\* C8 as stated: the result is spaced for every input.
C8_SpacedAlways == pc = "done" => Spaced(final)

\* C8 amended: the result is spaced whenever the text reaching the final
\* normalisation has no two punctuation marks side by side or separated only
\* by whitespace.
C8_SpacedWithoutAdjacentPunct ==
    (pc = "done" /\ NoAdjacentPunct(segmented)) => Spaced(final)

\* a text with whitespace before a mark and a mark followed by a letter
C8_Witness ==
    /\ pc = "done"
    /\ NoAdjacentPunct(segmented)
    /\ \E k \in 2..Len(segmented) - 1 :
          /\ segmented[k] \in Punct
          /\ IsSpace(segmented[k - 1])
          /\ ~IsSpace(segmented[k + 1])
    /\ final # segmented

\* str.isalnum() of one character
IsAlnum(c) == IsAsciiAlnum(c) \/ c \in {"e-acute", "E-acute"}

\* C9: capitalisation changes at most one character of a sentence, the
\* first alphanumeric one, and nothing in a sentence that has none.
C9_CapitalizesFirstAlnum ==
    pc = "done" =>
        /\ Len(cap_sents) = Len(sents)
        /\ \A k \in 1..Len(sents) :
              LET s == sents[k]
                  t == cap_sents[k]
                  alnum == {j \in 1..Len(s) : IsAlnum(s[j])}
              IN  /\ Len(t) = Len(s)
                  /\ \A j \in 1..Len(s) :
                        t[j] # s[j] =>
                            /\ j \in alnum
                            /\ \A j2 \in alnum : j <= j2
                  /\ alnum = {} => t = s

(***************************************************************************)
(* Properties of the two artifact filters.                                 *)
(***************************************************************************)
\* C2 as stated: the artifact stripper is idempotent for every text,
\* strip(strip(x)) = strip(x).
C2_StripIdempotent ==
    pc \in {"read", "done"} => strip_twice = strip_once

\* the three line rules: a header line, a "-->" timing line, a cue number
ArtifactLine(line) ==
    \/ StartsWithAt(UpperStr(StrStrip(line)), 1, WEBVTT)
    \/ Contains(line, Arrow)
    \/ IsDigitStr(StrStrip(line))

\* the lines of a text that carry anything, without their outer whitespace
TextLines(t) ==
    StripAndDropEmpty(splitlines(t))

\* nothing is left for the stripper to remove or decode: no line of the
\* three kinds and no "&"
ArtifactFree(t) ==
    /\ \A k \in 1..Len(splitlines(t)) : ~ArtifactLine(splitlines(t)[k])
    /\ \A k \in 1..Len(t) : t[k] # "&"

\* C2 amended: the stripper leaves its own result unchanged whenever that
\* result holds no header line, no "-->" line, no digits-only line and no "&".
C2_StripIdempotentOnCleanResult ==
    (pc \in {"read", "done"} /\ ArtifactFree(strip_once))
        => strip_twice = strip_once

\* a file whose header and timing range the stripper removed, leaving text
C2_Witness ==
    /\ pc = "done"
    /\ StartsWithAt(content, 1, WEBVTT)
    /\ HasDottedRange(content)
    /\ ArtifactFree(strip_once)
    /\ ~IsBlank(strip_once)
    /\ strip_twice = strip_once

\* C7: on the same file content the file reader and the stripper drop the
\* same lines, and either alone leaves no header, timing or cue-number line.
C7_FiltersAgree ==
    pc = "done" =>
        /\ \A k \in 1..Len(splitlines(file_text)) :
              ~ArtifactLine(splitlines(file_text)[k])
        /\ \A k \in 1..Len(splitlines(strip_once)) :
              ~ArtifactLine(splitlines(strip_once)[k])
        /\ TextLines(file_text) = TextLines(strip_once)


(***************************************************************************)
(* Properties of the source chain and of the subtitle file lookup.         *)
(***************************************************************************)
AllFailed == \A k \in 1..Len(trace) : ~trace[k].succeeded

Outcomes == [k \in 1..Len(invoked) |-> invoked[k].outcome]

\* C4: after the API reported transcripts disabled CleanTranscript is the
\* disabled sentinel while the fallbacks run; when both then give no text the
\* chain ends with the could-not-retrieve sentinel and three notes; whenever
\* every strategy failed the final CleanTranscript is that sentinel; a final
\* CleanTranscript is never empty; a fallback whose yt-dlp run raised has
\* failed, so that after "disabled" and raising runs the chain ends so.
C4_AllFailedGivesSentinel ==
    /\ (pc = "chain" /\ state \in {"TRY_AUTO_SUBS", "TRY_UPLOADED_SUBS"}
          /\ Outcomes[1] = "disabled")
          => CleanTranscript = DisabledSentinel
    /\ (pc = "chain" /\ finalized) =>
          /\ CleanTranscript # <<>>
          /\ AllFailed => CleanTranscript = CouldNotRetrieveSentinel
          /\ (Outcomes[1] = "disabled" /\ AllFailed) => Len(trace) = 3
          /\ (Outcomes[1] = "disabled"
                /\ \A k \in 2..Len(Outcomes) : Outcomes[k] = "raises")
                => /\ AllFailed
                   /\ Len(trace) = 3
                   /\ CleanTranscript = CouldNotRetrieveSentinel

\* Scenario C: disabled, then one fallback that times out and one that
\* leaves no file
C4_Witness ==
    /\ pc = "chain"
    /\ finalized
    /\ Outcomes = <<"disabled", "raises", "nothing">>
    /\ Len(trace) = 3
    /\ trace[1].note = "transcripts_disabled"
    /\ AllFailed
    /\ CleanTranscript = CouldNotRetrieveSentinel

\* the records and the invoked strategies of the video being processed
C5_TraceShape ==
    pc = "chain" =>
        /\ Len(invoked) <= 3
        /\ \A k \in 1..Len(invoked) : invoked[k].strategy = Strategies[k]
        /\ \A k \in 1..Len(trace) : trace[k].strategy = Strategies[k]
        /\ Len(trace) = Len(invoked) - (IF pending = NoPending THEN 0 ELSE 1)
        /\ state = "DONE" => (Len(trace) = Len(invoked) /\ Len(trace) \in 1..3)
        /\ \A k \in 2..Len(trace) : trace[k].succeeded => k = Len(trace)

\* C5: one AttemptRecord per invoked strategy, a succeeding one included; the
\* invoked strategies are a prefix of API, AUTO_SUBS, UPLOADED_SUBS; a
\* strategy is invoked only when the record of the one before is appended;
\* at DONE the trace holds 1 to 3 records; and DONE is always reached.
C5_OneRecordPerStrategyAndDone ==
    /\ []C5_TraceShape
    /\ (state # "DONE") ~> (state = "DONE")

\* a video whose third strategy succeeded, with its three records
C5_Witness ==
    /\ pc = "chain"
    /\ state = "DONE"
    /\ Len(trace) = 3
    /\ Len(invoked) = 3
    /\ trace[3].succeeded
    /\ ~trace[1].succeeded

\* C6: the subtitle text returned for a video comes from a file written by
\* this call for this video, never from a file written for another video or
\* by an earlier attempt.
C6_SubtitleTextIsOwn ==
    (pc = "chain" /\ pending.strategy \in {"AUTO_SUBS", "UPLOADED_SUBS"}
       /\ pending.text # <<>>)
        => pending.from = <<video, pending.strategy>>

====
